---- MODULE Spec2Model ----
(***************************************************************************)
(* Model of src/main.py: the Speckle Automate handler automate_function.   *)
(*                                                                         *)
(* One invocation of automate_function is modelled, split at the calls     *)
(* that can raise: building the request, requests.post(...).json(), the    *)
(* loop over response.items(), the test of response.get('building_data'),  *)
(* pd.DataFrame, to_html, open/write, store_file_result,                   *)
(* mark_run_success and the two mark_run_failed calls.  The collaborators  *)
(* (HTTP server, file system, AutomationContext) are the environment: the  *)
(* reply and the failure of each call are chosen nondeterministically.     *)
(* Text is a sequence of one-character strings, so that formatting and     *)
(* the JSON round trip of line 85 are computed, not assumed.               *)
(* The print calls (lines 73-76, 82, 88-91) only write to stdout and are   *)
(* not recorded, except that response.items() (line 90) raises on a reply  *)
(* that is not a JSON object.  mark_run_failed is taken to return.         *)
(***************************************************************************)
EXTENDS Integers, Sequences, FiniteSets, TLC

VARIABLES
    automate_context,   \* automation_run_data and trigger payload fields
    function_inputs,    \* username, speckle_token, api_url, api_token
    pc,                 \* position of the handler
    request,            \* what requests.post was called with
    response,           \* the parsed JSON reply
    building_data_df,   \* the DataFrame of line 99
    building_data_html, \* the HTML text of line 102
    exc,                \* the exception in flight / last raised
    fs,                 \* local files: name -> [exists, content]
    calls               \* ordered record of the calls on the outside world

vars == <<automate_context, function_inputs, pc, request, response,
          building_data_df, building_data_html, exc, fs, calls>>

\* ---------------------------------------------------------------- bounds
MaxRows == 2
MaxVal == 2

\* ---------------------------------------------------------------- text
RECURSIVE Flatten(_)
Flatten(ss) == IF ss = <<>> THEN <<>> ELSE Head(ss) \o Flatten(Tail(ss))

NoneText == <<"N", "o", "n", "e">>

\* a context field: a str, or None when the platform supplied nothing
StrField(s) == [none |-> FALSE, s |-> s]
NoneField == [none |-> TRUE, s |-> <<>>]

\* f"{x}": format(x, "") is str(x)
Format(x) == IF x.none THEN NoneText ELSE x.s

ProjectsText == <<"/", "p", "r", "o", "j", "e", "c", "t", "s", "/">>
ModelsText == <<"/", "m", "o", "d", "e", "l", "s", "/">>
AtText == <<"@">>
FromDatafusrText == <<"/", "f", "r", "o", "m", "_", "d", "a", "t", "a", "f", "u", "s", "r">>
ProjectNameText == <<"M", "E", "P", "P", "o", "s", "t", "p", "r", "o", "c", "e",
                     "s", "s", "i", "n", "g", "P", "r", "o", "j", "e", "c", "t">>

\* json.dumps of a str: the body between the quotes, " and \ escaped
RECURSIVE JsonDumpsStr(_)
JsonDumpsStr(s) ==
    IF s = <<>> THEN <<>>
    ELSE (IF Head(s) \in {"\"", "\\"} THEN <<"\\", Head(s)>> ELSE <<Head(s)>>)
         \o JsonDumpsStr(Tail(s))

\* json.loads of such a body
RECURSIVE JsonLoadsStr(_)
JsonLoadsStr(t) ==
    IF t = <<>> THEN <<>>
    ELSE IF Head(t) = "\\" /\ Len(t) >= 2
         THEN <<t[2]>> \o JsonLoadsStr(Tail(Tail(t)))
         ELSE <<Head(t)>> \o JsonLoadsStr(Tail(t))

JsonDumps(d) ==
    [datafusr_config |->
        [project_name |-> JsonDumpsStr(d.datafusr_config.project_name),
         source_url |-> JsonDumpsStr(d.datafusr_config.source_url),
         speckle_token |-> JsonDumpsStr(d.datafusr_config.speckle_token)]]

JsonLoads(t) ==
    [datafusr_config |->
        [project_name |-> JsonLoadsStr(t.datafusr_config.project_name),
         source_url |-> JsonLoadsStr(t.datafusr_config.source_url),
         speckle_token |-> JsonLoadsStr(t.datafusr_config.speckle_token)]]

\* ---------------------------------------------------------------- inputs
ServerUrls == {StrField(<<"h">>), StrField(<<"h", "/">>), NoneField}
ProjectIds == {StrField(<<"p">>), StrField(<<>>), StrField(<<"p", " ">>)}
ModelIds == {StrField(<<"m">>), StrField(<<"m", "\"">>), StrField(<<"/", "@">>)}
VersionIds == {StrField(<<"v">>), StrField(<<"\\">>), NoneField}

Contexts ==
    [speckle_server_url : ServerUrls, project_id : ProjectIds,
     model_id : ModelIds, version_id : VersionIds]

FunctionInputs ==
    [username : {<<"u">>}, speckle_token : {<<"s", "\"">>},
     api_url : {<<"a">>, <<"a", "/">>}, api_token : {<<"t">>}]

\* ---------------------------------------------------------------- JSON values
Null == [kind |-> "null", b |-> FALSE, n |-> 0, s |-> <<>>, items |-> <<>>, cols |-> <<>>]
BoolV(b) == [Null EXCEPT !.kind = "bool", !.b = b]
NumV(n) == [Null EXCEPT !.kind = "num", !.n = n]
StrV(s) == [Null EXCEPT !.kind = "str", !.s = s]
ListV(items) == [Null EXCEPT !.kind = "list", !.items = items]
DictV(cols) == [Null EXCEPT !.kind = "dict", !.cols = cols]

IntSeqs == UNION {[1..n -> 1..MaxVal] : n \in 0..MaxRows}
Column(name, vals) == [name |-> name, vals |-> vals]

BuildingDataValues ==
    {Null, BoolV(FALSE), BoolV(TRUE), NumV(0), NumV(5), StrV(<<>>), StrV(<<"x">>)}
    \cup {ListV(v) : v \in IntSeqs}
    \cup {DictV(<<>>)}
    \cup {DictV(<<Column("col", v)>>) : v \in IntSeqs}
    \cup {DictV(<<Column("col", v), Column("b", w)>>) : v \in IntSeqs, w \in IntSeqs}

\* a parsed reply: a JSON object with or without the key, or another JSON value
Mapping(has, bd) == [kind |-> "mapping", has |-> has, bd |-> bd]
NotMapping == [kind |-> "other", has |-> FALSE, bd |-> Null]
NoResponse == [kind |-> "none", has |-> FALSE, bd |-> Null]

Responses ==
    {Mapping(TRUE, v) : v \in BuildingDataValues} \cup {Mapping(FALSE, Null), NotMapping}

\* response.get('building_data'): None when the key is missing
Get(r) == IF r.has THEN r.bd ELSE Null

\* Truthy with a slip: any list, also the empty one, counts as data
TruthyAnyList(v) ==
    CASE v.kind = "null" -> FALSE
      [] v.kind = "bool" -> v.b
      [] v.kind = "num" -> v.n # 0
      [] v.kind = "str" -> v.s # <<>>
      [] v.kind = "list" -> TRUE
      [] v.kind = "dict" -> v.cols # <<>>

\* Python truth value of a JSON value
Truthy(v) ==
    CASE v.kind = "null" -> FALSE
      [] v.kind = "bool" -> v.b
      [] v.kind = "num" -> v.n # 0
      [] v.kind = "str" -> v.s # <<>>
      [] v.kind = "list" -> v.items # <<>>
      [] v.kind = "dict" -> v.cols # <<>>

\* ---------------------------------------------------------------- pandas
NoFrame == [columns |-> <<>>, rows |-> 0, data |-> <<>>]
ErrLengths == "All arrays must be of the same length"
ErrConstructor == "DataFrame constructor not properly called!"

\* pd.DataFrame(value): [ok, err, df]
DataFrame(v) ==
    CASE v.kind = "dict" ->
            IF \A i, j \in 1..Len(v.cols) : Len(v.cols[i].vals) = Len(v.cols[j].vals)
            THEN [ok |-> TRUE, err |-> "",
                  df |-> [columns |-> [i \in 1..Len(v.cols) |-> v.cols[i].name],
                          rows |-> IF v.cols = <<>> THEN 0 ELSE Len(v.cols[1].vals),
                          data |-> [i \in 1..Len(v.cols) |-> v.cols[i].vals]]]
            ELSE [ok |-> FALSE, err |-> ErrLengths, df |-> NoFrame]
      [] v.kind = "list" ->
            [ok |-> TRUE, err |-> "",
             df |-> IF v.items = <<>> THEN NoFrame
                    ELSE [columns |-> <<"0">>, rows |-> Len(v.items), data |-> <<v.items>>]]
      [] OTHER -> [ok |-> FALSE, err |-> ErrConstructor, df |-> NoFrame]

HeaderRow(df) ==
    <<"<tr>", "<th>", "", "</th>">>
    \o Flatten([c \in 1..Len(df.columns) |-> <<"<th>", df.columns[c], "</th>">>])
    \o <<"</tr>">>

BodyRow(df, r) ==
    <<"<tr>", "<th>", ToString(r - 1), "</th>">>
    \o Flatten([c \in 1..Len(df.columns) |-> <<"<td>", ToString(df.data[c][r]), "</td>">>])
    \o <<"</tr>">>

\* DataFrame.to_html(): the table as a sequence of tags and cell texts
ToHtml(df) ==
    <<"<table>", "<thead>">> \o HeaderRow(df) \o <<"</thead>", "<tbody>">>
    \o Flatten([r \in 1..df.rows |-> BodyRow(df, r)])
    \o <<"</tbody>", "</table>">>

\* ---------------------------------------------------------------- the handler
OutputFile == "building_data.html"
StoredFile == "building_data_html"
FileNames == {OutputFile, StoredFile}
NoFile == [exists |-> FALSE, content |-> <<>>]

SuccessMessage == <<"Building data table successfully generated!">>
NoDataMessage == <<"Automation failed: No building data could be retrieved!">>
FailedMessage(e) == <<"Automation failed: ", e>>

NoExc == [raised |-> FALSE, at |-> "", text |-> ""]
Raise(at, text) == [raised |-> TRUE, at |-> at, text |-> text]

Call(op, arg, ok) == [op |-> op, arg |-> arg, ok |-> ok]

NoRequest == [sent |-> FALSE, url |-> <<>>,
              json |-> [datafusr_config |-> [project_name |-> <<>>, source_url |-> <<>>,
                                             speckle_token |-> <<>>]],
              headers |-> [username |-> <<>>, token |-> <<>>]]

\* SourceUrl with a slip: a trailing "/" of the server URL is dropped
SourceUrlStripped(ard, pl) ==
    LET server == Format(ard.speckle_server_url) IN
    (IF server # <<>> /\ server[Len(server)] = "/"
     THEN SubSeq(server, 1, Len(server) - 1) ELSE server)
    \o ProjectsText \o Format(ard.project_id)
    \o ModelsText \o Format(pl.model_id) \o AtText \o Format(pl.version_id)

SourceUrl(ard, pl) ==
    Format(ard.speckle_server_url) \o ProjectsText \o Format(ard.project_id)
    \o ModelsText \o Format(pl.model_id) \o AtText \o Format(pl.version_id)

Data(ctx, inputs) ==
    [datafusr_config |->
        [project_name |-> ProjectNameText,
         source_url |-> SourceUrl(ctx, ctx),
         speckle_token |-> inputs.speckle_token]]

Headers(inputs) == [username |-> inputs.username, token |-> inputs.api_token]

Url(inputs) == inputs.api_url \o FromDatafusrText

Init ==
    /\ automate_context \in Contexts
    /\ function_inputs \in FunctionInputs
    /\ pc = "start"
    /\ request = NoRequest
    /\ response = NoResponse
    /\ building_data_df = NoFrame
    /\ building_data_html = <<>>
    /\ exc = NoExc
    /\ fs = [f \in FileNames |-> NoFile]
    /\ calls = <<>>

\* Post with a slip: the call sits inside a try block that reports the error
PostCaught ==
    /\ pc = "start"
    /\ request' = [sent |-> TRUE, url |-> Url(function_inputs),
                   json |-> JsonLoads(JsonDumps(Data(automate_context, function_inputs))),
                   headers |-> Headers(function_inputs)]
    /\ \/ /\ calls' = <<Call("post", <<>>, FALSE),
                         Call("mark_run_failed", FailedMessage("ConnectionError"), TRUE)>>
          /\ exc' = Raise("post", "ConnectionError")
          /\ pc' = "done"
          /\ UNCHANGED response
       \/ /\ calls' = <<Call("post", <<>>, TRUE),
                         Call("mark_run_failed", FailedMessage("JSONDecodeError"), TRUE)>>
          /\ exc' = Raise("json", "JSONDecodeError")
          /\ pc' = "done"
          /\ UNCHANGED response
       \/ /\ calls' = Append(calls, Call("post", <<>>, TRUE))
          /\ \E r \in Responses : response' = r
          /\ pc' = "print"
          /\ UNCHANGED exc
    /\ UNCHANGED <<automate_context, function_inputs, building_data_df,
                   building_data_html, fs>>

\* line 85: requests.post(url, json=json.loads(json.dumps(data)), headers=headers).json()
Post ==
    /\ pc = "start"
    /\ request' = [sent |-> TRUE, url |-> Url(function_inputs),
                   json |-> JsonLoads(JsonDumps(Data(automate_context, function_inputs))),
                   headers |-> Headers(function_inputs)]
    /\ \/ \* the request itself raises (connection error, timeout of the peer ...)
          /\ calls' = Append(calls, Call("post", <<>>, FALSE))
          /\ exc' = Raise("post", "ConnectionError")
          /\ pc' = "raised"
          /\ UNCHANGED response
       \/ \* a reply arrives whose body is not JSON: .json() raises
          /\ calls' = Append(calls, Call("post", <<>>, TRUE))
          /\ exc' = Raise("json", "JSONDecodeError")
          /\ pc' = "raised"
          /\ UNCHANGED response
       \/ \* a JSON reply
          /\ calls' = Append(calls, Call("post", <<>>, TRUE))
          /\ \E r \in Responses : response' = r
          /\ pc' = "print"
          /\ UNCHANGED exc
    /\ UNCHANGED <<automate_context, function_inputs, building_data_df,
                   building_data_html, fs>>

\* lines 88-91: response.items() exists on a JSON object only
PrintResponse ==
    /\ pc = "print"
    /\ IF response.kind = "mapping"
       THEN pc' = "branch" /\ UNCHANGED exc
       ELSE pc' = "raised" /\ exc' = Raise("items", "AttributeError")
    /\ UNCHANGED <<automate_context, function_inputs, request, response,
                   building_data_df, building_data_html, fs, calls>>

\* NoBuildingData with a slip: the request is sent once more before giving up
NoBuildingDataRetry ==
    /\ pc = "branch"
    /\ ~Truthy(Get(response))
    /\ calls' = calls \o <<Call("post", <<>>, TRUE),
                           Call("mark_run_failed", NoDataMessage, TRUE)>>
    /\ pc' = "done"
    /\ UNCHANGED <<automate_context, function_inputs, request, response,
                   building_data_df, building_data_html, exc, fs>>

\* lines 94, 119-122: no building data
NoBuildingData ==
    /\ pc = "branch"
    /\ ~Truthy(Get(response))
    /\ calls' = Append(calls, Call("mark_run_failed", NoDataMessage, TRUE))
    /\ pc' = "done"
    /\ UNCHANGED <<automate_context, function_inputs, request, response,
                   building_data_df, building_data_html, exc, fs>>

\* lines 94-99: building data present, pd.DataFrame(response['building_data'])
CreateDataFrame ==
    /\ pc = "branch"
    /\ Truthy(Get(response))
    /\ LET res == DataFrame(response.bd) IN
       IF res.ok
       THEN /\ building_data_df' = res.df
            /\ pc' = "to_html"
            /\ UNCHANGED exc
       ELSE /\ exc' = Raise("DataFrame", res.err)
            /\ pc' = "except"
            /\ UNCHANGED building_data_df
    /\ UNCHANGED <<automate_context, function_inputs, request, response,
                   building_data_html, fs, calls>>

\* line 102: building_data_df.to_html()
ConvertToHtml ==
    /\ pc = "to_html"
    /\ \/ /\ building_data_html' = ToHtml(building_data_df)
          /\ pc' = "write"
          /\ UNCHANGED exc
       \/ /\ exc' = Raise("to_html", "MemoryError")
          /\ pc' = "except"
          /\ UNCHANGED building_data_html
    /\ UNCHANGED <<automate_context, function_inputs, request, response,
                   building_data_df, fs, calls>>

\* lines 105-106: with open("building_data.html", "w") as fp: fp.write(...)
WriteFile ==
    /\ pc = "write"
    /\ \/ \* written and closed
          /\ fs' = [fs EXCEPT ![OutputFile] = [exists |-> TRUE, content |-> building_data_html]]
          /\ calls' = Append(calls, Call("write", <<OutputFile>>, TRUE))
          /\ pc' = "store"
          /\ UNCHANGED exc
       \/ \* open raises: nothing is created
          /\ calls' = Append(calls, Call("open", <<OutputFile>>, FALSE))
          /\ exc' = Raise("open", "PermissionError")
          /\ pc' = "except"
          /\ UNCHANGED fs
       \/ \* open truncates, write raises
          /\ fs' = [fs EXCEPT ![OutputFile] = [exists |-> TRUE, content |-> <<>>]]
          /\ calls' = Append(calls, Call("write", <<OutputFile>>, FALSE))
          /\ exc' = Raise("write", "OSError")
          /\ pc' = "except"
    /\ UNCHANGED <<automate_context, function_inputs, request, response,
                   building_data_df, building_data_html>>

\* StoreFileResult with a slip: a failed registration is ignored
StoreFileResultIgnored ==
    /\ pc = "store"
    /\ \E ok \in BOOLEAN :
          calls' = Append(calls, Call("store_file_result", <<StoredFile>>, ok))
    /\ pc' = "success"
    /\ UNCHANGED <<automate_context, function_inputs, request, response,
                   building_data_df, building_data_html, exc, fs>>

\* line 109: automate_context.store_file_result("building_data_html")
StoreFileResult ==
    /\ pc = "store"
    /\ \/ /\ calls' = Append(calls, Call("store_file_result", <<StoredFile>>, TRUE))
          /\ pc' = "success"
          /\ UNCHANGED exc
       \/ /\ calls' = Append(calls, Call("store_file_result", <<StoredFile>>, FALSE))
          /\ exc' = Raise("store_file_result", "FileNotFoundError")
          /\ pc' = "except"
    /\ UNCHANGED <<automate_context, function_inputs, request, response,
                   building_data_df, building_data_html, fs>>

\* line 112: automate_context.mark_run_success(...)
MarkRunSuccess ==
    /\ pc = "success"
    /\ \/ /\ calls' = Append(calls, Call("mark_run_success", SuccessMessage, TRUE))
          /\ pc' = "done"
          /\ UNCHANGED exc
       \/ /\ calls' = Append(calls, Call("mark_run_success", SuccessMessage, FALSE))
          /\ exc' = Raise("mark_run_success", "Exception")
          /\ pc' = "except"
    /\ UNCHANGED <<automate_context, function_inputs, request, response,
                   building_data_df, building_data_html, fs>>

\* MarkRunFailed with a slip: the handler re-raises instead of reporting
MarkRunFailedReraise ==
    /\ pc = "except"
    /\ pc' = "raised"
    /\ UNCHANGED <<automate_context, function_inputs, request, response,
                   building_data_df, building_data_html, exc, fs, calls>>

\* lines 114-117: except Exception as e: mark_run_failed(f"Automation failed: {e}")
MarkRunFailed ==
    /\ pc = "except"
    /\ calls' = Append(calls, Call("mark_run_failed", FailedMessage(exc.text), TRUE))
    /\ pc' = "done"
    /\ UNCHANGED <<automate_context, function_inputs, request, response,
                   building_data_df, building_data_html, exc, fs>>

Next ==
    \/ Post
    \/ PrintResponse
    \/ NoBuildingData
    \/ CreateDataFrame
    \/ ConvertToHtml
    \/ WriteFile
    \/ StoreFileResult
    \/ MarkRunSuccess
    \/ MarkRunFailed

Spec == Init /\ [][Next]_vars

\* ---------------------------------------------------------------- properties
Ended == pc \in {"done", "raised"}
CallsOf(ops) == {i \in 1..Len(calls) : calls[i].op \in ops}
Reports == CallsOf({"mark_run_success", "mark_run_failed"})
FileCalls == CallsOf({"open", "write"})
NothingWritten == FileCalls = {} /\ \A f \in FileNames : fs[f] = NoFile
RenderingSteps == {"DataFrame", "to_html", "open", "write", "store_file_result"}
ColTable == <<"<table>", "<thead>", "<tr>", "<th>", "", "</th>", "<th>", "col", "</th>",
              "</tr>", "</thead>", "<tbody>",
              "<tr>", "<th>", "0", "</th>", "<td>", "1", "</td>", "</tr>",
              "<tr>", "<th>", "1", "</th>", "<td>", "2", "</td>", "</tr>",
              "</tbody>", "</table>">>

\* C1: when an invocation has ended, exactly one of mark_run_success and
\* mark_run_failed has been invoked, whatever the POST, the reply and the
\* calls of the rendering branch did.
C1_ExactlyOneReport == Ended => Cardinality(Reports) = 1

\* C2: a run whose reply carries a truthy building_data that converts to a
\* table, and in which no call raised, has written the HTML table to
\* building_data.html, has registered that file with store_file_result, and
\* ended with mark_run_success("Building data table successfully generated!")
\* and no mark_run_failed; for {"col": [1, 2]} the file holds the table with
\* the column "col" and the rows 1 and 2.
C2_TableStoredAndSuccess ==
    (Ended /\ response.kind = "mapping" /\ Truthy(Get(response))
        /\ DataFrame(Get(response)).ok /\ ~exc.raised)
    => /\ pc = "done"
       /\ fs[OutputFile] = [exists |-> TRUE, content |-> ToHtml(DataFrame(Get(response)).df)]
       /\ Get(response) = DictV(<<Column("col", <<1, 2>>)>>) => fs[OutputFile].content = ColTable
       /\ \E i \in CallsOf({"store_file_result"}) : calls[i].arg = <<OutputFile>> /\ calls[i].ok
       /\ calls[Len(calls)] = Call("mark_run_success", SuccessMessage, TRUE)
       /\ CallsOf({"mark_run_failed"}) = {}

\* C3: every call of store_file_result names building_data.html, the file
\* the same run has written just before.
C3_StoredFileIsWrittenFile ==
    \A i \in CallsOf({"store_file_result"}) :
        /\ calls[i].arg = <<OutputFile>>
        /\ i > 1 /\ calls[i - 1] = Call("write", <<OutputFile>>, TRUE)

\* the falsy JSON values: null, false, 0, "", [] and {}
FalsyValues == {Null, BoolV(FALSE), NumV(0), StrV(<<>>), ListV(<<>>), DictV(<<>>)}

\* C4: when the reply's building_data is absent or falsy, nothing is ever
\* written, stored or reported as success, and the run ends normally with the
\* single report mark_run_failed("Automation failed: No building data could
\* be retrieved!").
C4_NoDataFails ==
    (response.kind = "mapping" /\ (~response.has \/ response.bd \in FalsyValues))
    => /\ NothingWritten
       /\ CallsOf({"store_file_result", "mark_run_success"}) = {}
       /\ pc \in {"print", "branch", "done"}
       /\ pc = "done" => /\ calls[Len(calls)] = Call("mark_run_failed", NoDataMessage, TRUE)
                         /\ Cardinality(Reports) = 1
       /\ pc # "done" => Reports = {}

C4_Witness ==
    /\ pc = "done"
    /\ response = Mapping(TRUE, ListV(<<>>))
    /\ calls[Len(calls)].op = "mark_run_failed"

\* C5: when building_data is truthy and the table conversion, the HTML
\* conversion, the file write or the registration raises, the error is caught:
\* mark_run_success is never called, the handler ends normally, and its one
\* report is mark_run_failed("Automation failed: <error text>").
C5_RenderingErrorReported ==
    (exc.raised /\ exc.at \in RenderingSteps)
    => /\ Truthy(Get(response))
       /\ pc \in {"except", "done"}
       /\ CallsOf({"mark_run_success"}) = {}
       /\ pc = "done" => /\ calls[Len(calls)] =
                               Call("mark_run_failed", FailedMessage(exc.text), TRUE)
                         /\ Cardinality(Reports) = 1

C5_Witness ==
    /\ pc = "done"
    /\ exc = Raise("DataFrame", ErrLengths)
    /\ calls[Len(calls)] = Call("mark_run_failed", FailedMessage(ErrLengths), TRUE)

\* C6: an error of the POST itself or a reply body that is not JSON leaves
\* the handler as a raised error, and in that run nothing is reported, stored
\* or written.
C6_TransportErrorPropagates ==
    (exc.raised /\ exc.at \in {"post", "json"})
    => /\ pc = "raised"
       /\ Reports = {}
       /\ CallsOf({"store_file_result"}) = {}
       /\ NothingWritten

C6_Witness == pc = "raised" /\ exc.at = "json" /\ calls = <<Call("post", <<>>, TRUE)>>

\* C7: no invocation ends with a raised error visible to the caller.
C7_NeverRaises == pc # "raised"

\* C8: the source_url of the request body that was posted is the server URL,
\* "/projects/", the project id, "/models/", the model id, "@" and the
\* version id, each field as its literal text, put together unchanged.
C8_SourceUrlExact ==
    request.sent
    => request.json.datafusr_config.source_url =
           Format(automate_context.speckle_server_url)
           \o <<"/", "p", "r", "o", "j", "e", "c", "t", "s", "/">>
           \o Format(automate_context.project_id)
           \o <<"/", "m", "o", "d", "e", "l", "s", "/">>
           \o Format(automate_context.model_id)
           \o <<"@">>
           \o Format(automate_context.version_id)

C8_Witness ==
    /\ request.sent
    /\ automate_context.speckle_server_url = StrField(<<"h", "/">>)
    /\ automate_context.model_id = StrField(<<"m", "\"">>)
    /\ automate_context.version_id = NoneField
    /\ request.json.datafusr_config.source_url =
           <<"h", "/", "/", "p", "r", "o", "j", "e", "c", "t", "s", "/", "p",
             "/", "m", "o", "d", "e", "l", "s", "/", "m", "\"", "@", "N", "o", "n", "e">>

\* C9: an invocation makes exactly one POST and at most one file write, and
\* the POST comes before every file write, store_file_result,
\* mark_run_success and mark_run_failed.
C9_OnePostFirst ==
    /\ Cardinality(CallsOf({"post"})) = (IF pc = "start" THEN 0 ELSE 1)
    /\ Cardinality(FileCalls) <= 1
    /\ calls # <<>> => calls[1].op = "post"
    /\ request.sent <=> pc # "start"

C9_Witness ==
    /\ pc = "done"
    /\ response = Mapping(FALSE, Null)
    /\ Cardinality(CallsOf({"post"})) = 1

====
